---- MODULE Spec2Model ----
(***************************************************************************)
(* Model of notebooks/src/auxiliar_functions.py (class AuxFunctions):      *)
(*   holm_adjust   Holm step-down adjustment of a p-value array            *)
(*   dunn_posthoc  Dunn's pairwise rank test with tie correction           *)
(*   cld_letters   greedy compact letter display                           *)
(*                                                                         *)
(* Numbers.  A p-value is an integer number of 1/PScale units, so 1.0 is   *)
(* PScale; the float nan is the value NaN.  Ranks are kept doubled (average*)
(* ranks are multiples of 1/2) and z*z is kept as an exact fraction.  The  *)
(* p-values dunn_posthoc computes are real numbers: they are carried in    *)
(* 1/FineScale units through the adjustment and rounded down to 1/PScale   *)
(* units where they are stored, so raw_p and dunn_out hold                 *)
(* floor(PScale * p) of the program's p.                                   *)
(* Group identifiers are strings; float(z) is the parser Float below.      *)
(***************************************************************************)
EXTENDS Integers, Sequences, FiniteSets

\* ---- bounds of the model ------------------------------------------------
PScale == 4      \* p-value resolution of holm_adjust / dunn_posthoc
MaxLen == 3      \* longest p-value array given to holm_adjust
MaxGroups == 3   \* most groups in a mapping (dunn_posthoc, cld_letters)
MaxObs == 2      \* most observations in one group
MaxVal == 2      \* observations are 1..MaxVal
CScale == 2      \* p-value resolution of the map given to cld_letters

VARIABLES
    pc,            \* position of the call in progress
    err,           \* the exception the call raised ("none": it has not);
                   \* line 87 and the library calls that fail raise ValueError
    pvals, out,    \* holm_adjust: argument, return value
    groups, p_adjust, steps, raw_p, dunn_out,
                   \* dunn_posthoc: arguments, statements executed, raw
                   \* p-values, returned dict
    group_means, cld_pvals, alpha,
                   \* cld_letters: arguments
    cld_groups, letters, letter_list, gi
                   \* cld_letters: locals groups, letters, letter_list and
                   \* the index of the next group of the for loop

vars == <<pc, err, pvals, out, groups, p_adjust, steps, raw_p, dunn_out,
          group_means, cld_pvals, alpha, cld_groups, letters, letter_list, gi>>

holmVars == <<pvals, out>>
dunnVars == <<groups, p_adjust, steps, raw_p, dunn_out>>
cldVars == <<group_means, cld_pvals, alpha, cld_groups, letters, letter_list, gi>>

\* ---- floats -------------------------------------------------------------
NaN == -1

Max2(a, b) == IF a >= b THEN a ELSE b
Min2(a, b) == IF a <= b THEN a ELSE b

\* a * p for an integer a and a float p
FMul(a, p) == IF p = NaN THEN NaN ELSE a * p

\* np.maximum(a, b): propagates nan
FMaximum(a, b) == IF a = NaN \/ b = NaN THEN NaN ELSE Max2(a, b)

\* np.clip(x, 0, 1): nan stays nan; one is 1.0 in the units of x
Clip01(x, one) == IF x = NaN THEN NaN ELSE Min2(Max2(x, 0), one)

\* the order np.argsort sorts by: ascending, nan last
SortLE(a, b) == b = NaN \/ (a # NaN /\ a <= b)

Perms(m) == {f \in [1..m -> 1..m] : \A i, j \in 1..m : f[i] = f[j] => i = j}

\* np.argsort(pvals): an index array that sorts pvals; the default sort kind
\* is not stable, so equal values may come in any order
ArgSorts(pv) ==
    {o \in Perms(Len(pv)) :
        \A i, j \in 1..Len(pv) : i < j => SortLE(pv[o[i]], pv[o[j]])}

\* ---- holm_adjust --------------------------------------------------------
\* adjusted[i] = (m - i) * p, i counted from 0 in the source and from 1 here
HolmCandidateOffByOne(m, i, p) == FMul(m - i, p)

HolmCandidate(m, i, p) == FMul(m - (i - 1), p)

\* np.maximum.accumulate(adjusted)
RECURSIVE MaxAccumulate(_)
MaxAccumulate(a) ==
    IF Len(a) <= 1 THEN a
    ELSE LET front == MaxAccumulate(SubSeq(a, 1, Len(a) - 1))
         IN  Append(front, FMaximum(front[Len(front)], a[Len(a)]))

\* out[order] = adjusted
ScatterSortedOrder(order, adjusted) == adjusted

Scatter(order, adjusted) ==
    [k \in 1..Len(adjusted) |->
        adjusted[CHOOSE i \in 1..Len(adjusted) : order[i] = k]]

\* the body of holm_adjust once argsort has returned order; one is 1.0 in
\* the units of pv
HolmAdjustOrd(pv, order, one) ==
    LET m == Len(pv)
        ranked == [i \in 1..m |-> pv[order[i]]]
        cand == [i \in 1..m |-> HolmCandidate(m, i, ranked[i])]
        acc == MaxAccumulate(cand)
        clipped == [i \in 1..m |-> Clip01(acc[i], one)]
    IN  Scatter(order, clipped)

\* np.clip(raw_p * len(raw_p), 0, 1)
Bonferroni(pv, one) ==
    [i \in 1..Len(pv) |-> Clip01(FMul(Len(pv), pv[i]), one)]

PValues == 0..PScale

SeqsUpTo(S, n) == UNION {[1..k -> S] : k \in 0..n}

InitHolm ==
    /\ pc = "ready"
    /\ pvals \in SeqsUpTo(PValues, MaxLen)
    /\ out = <<>>
    /\ groups = <<>> /\ p_adjust = "" /\ steps = {} /\ raw_p = <<>>
    /\ dunn_out = <<>> /\ err = "none"
    /\ group_means = <<>> /\ cld_pvals = <<>> /\ alpha = 0
    /\ cld_groups = <<>> /\ letters = <<>> /\ letter_list = <<>> /\ gi = 0

HolmAdjust ==
    /\ pc = "ready"
    /\ \E order \in ArgSorts(pvals) : out' = HolmAdjustOrd(pvals, order, PScale)
    /\ pc' = "done"
    /\ UNCHANGED <<err, pvals, dunnVars, cldVars>>

NextHolm == HolmAdjust

SpecHolm == InitHolm /\ [][NextHolm]_vars

\* ---- group identifiers --------------------------------------------------
GroupIds == {"1", "2", "3", "A"}

\* float(z) succeeds
IsFloat(z) == z \in {"1", "2", "3"}

\* float(z)
Float(z) == CASE z = "1" -> 1 [] z = "2" -> 2 [] z = "3" -> 3

\* tuple(sorted((g, h), key=lambda z: float(z))): a stable sort of two items
SortedPair(g, h) == IF Float(h) < Float(g) THEN <<h, g>> ELSE <<g, h>>

\* ---- dunn_posthoc -------------------------------------------------------
RECURSIVE SeqSum(_)
SeqSum(s) == IF s = <<>> THEN 0 ELSE Head(s) + SeqSum(Tail(s))

\* x = np.concatenate(values)
RECURSIVE Flatten(_)
Flatten(gs) == IF gs = <<>> THEN <<>> ELSE Head(gs).obs \o Flatten(Tail(gs))

\* labels.extend([g] * len(arr))
RECURSIVE Labels(_)
Labels(gs) ==
    IF gs = <<>> THEN <<>>
    ELSE [i \in 1..Len(Head(gs).obs) |-> Head(gs).g] \o Labels(Tail(gs))

\* rankdata(x), doubled: the average rank of x[i] is
\* (number smaller) + (number equal + 1) / 2
Rank2(x, i) ==
    2 * Cardinality({j \in 1..Len(x) : x[j] < x[i]})
      + Cardinality({j \in 1..Len(x) : x[j] = x[i]}) + 1

\* group_sizes[g] = np.sum(labels == g)
GroupSize(labels, g) == Cardinality({i \in 1..Len(labels) : labels[i] = g})

\* rank_sums[g] = np.sum(r[labels == g]), doubled
RankSum2(x, labels, g) ==
    SeqSum([i \in 1..Len(x) |-> IF labels[i] = g THEN Rank2(x, i) ELSE 0])

\* tie_term = np.sum(counts**3 - counts) over the distinct values of x
TieTerm(x) ==
    LET vals == {x[i] : i \in 1..Len(x)}
        cnt(v) == Cardinality({i \in 1..Len(x) : x[i] = v})
        RECURSIVE Sum(_)
        Sum(S) == IF S = {} THEN 0
                  ELSE LET v == CHOOSE w \in S : TRUE
                       IN  cnt(v) * cnt(v) * cnt(v) - cnt(v) + Sum(S \ {v})
    IN  Sum(vals)

\* var = (N * (N + 1) / 12.0) * tie_correction as the fraction VarNum / VarDen;
\* for N > 1 it is N(N+1)/12 * (N^3 - N - tie_term)/(N^3 - N)
\*                = (N^3 - N - tie_term) / (12 * (N - 1))
VarNum(x) ==
    LET N == Len(x)
    IN  IF N > 1 THEN N * N * N - N - TieTerm(x) ELSE N * (N + 1)

VarDen(x) == LET N == Len(x) IN IF N > 1 THEN 12 * (N - 1) ELSE 12

\* the resolution the p-values of dunn_posthoc are computed in: a multiple
\* of PScale * c for every Holm or Bonferroni factor c the bounds allow, so
\* that rounding the result down to 1/PScale units loses nothing
FineScale == 1200

\* the critical values of 2.0 * norm.sf(|z|): 2.0 * norm.sf(|z|) >= k / 1200
\* exactly when z*z <= SfCrit[k] / 10^8 (SfCrit[k] is z*z at the point where
\* the two-sided tail is k / 1200, in units of 10^-8, rounded down)
SfCrit ==
    <<
       1116548161, 988461204, 914059346, 861539592, 820971623, 787943857, 760108047, 736065054,
       714913860, 696040144, 679006313, 663489660, 649245394, 636083439, 623853263, 612433633,
       601725474, 591646788, 582128945, 573113928, 564552256, 556401388, 548624488, 541189443,
       534068096, 527235621, 520670015, 514351691, 508263133, 502388618, 496713977, 491226396,
       485914255, 480766977, 475774910, 470929224, 466221818, 461645244, 457192635, 452857651,
       448634425, 444517513, 440501863, 436582768, 432755844, 429016996, 425362396, 421788458,
       418291821, 414869328, 411518009, 408235071, 405017880, 401863951, 398770936, 395736617,
       392758892, 389835770, 386965364, 384145882, 381375620, 378652960, 375976361, 373344356,
       370755546, 368208597, 365702234, 363235242, 360806457, 358414768, 356059108, 353738459,
       351451843, 349198323, 346977000, 344787011, 342627527, 340497751, 338396917, 336324289,
       334279156, 332260836, 330268672, 328302028, 326360294, 324442880, 322549216, 320678754,
       318830962, 317005327, 315201354, 313418563, 311656491, 309914689, 308192723, 306490172,
       304806628, 303141698, 301494998, 299866158, 298254817, 296660626, 295083247, 293522351,
       291977618, 290448738, 288935409, 287437339, 285954243, 284485844, 283031872, 281592066,
       280166170, 278753937, 277355124, 275969497, 274596826, 273236888, 271889465, 270554345,
       269231322, 267920193, 266620763, 265332839, 264056234, 262790766, 261536256, 260292530,
       259059419, 257836756, 256624380, 255422131, 254229855, 253047401, 251874621, 250711370,
       249557508, 248412895, 247277397, 246150881, 245033218, 243924281, 242823946, 241732093,
       240648601, 239573355, 238506241, 237447147, 236395963, 235352584, 234316903, 233288819,
       232268229, 231255036, 230249142, 229250452, 228258874, 227274315, 226296687, 225325901,
       224361871, 223404513, 222453743, 221509479, 220571643, 219640155, 218714937, 217795915,
       216883014, 215976161, 215075284, 214180313, 213291178, 212407812, 211530147, 210658118,
       209791660, 208930710, 208075206, 207225085, 206380288, 205540756, 204706430, 203877252,
       203053167, 202234119, 201420053, 200610916, 199806655, 199007217, 198212551, 197422608,
       196637338, 195856692, 195080621, 194309079, 193542019, 192779395, 192021162, 191267275,
       190517691, 189772367, 189031260, 188294329, 187561531, 186832827, 186108177, 185387540,
       184670879, 183958155, 183249329, 182544366, 181843228, 181145879, 180452283, 179762406,
       179076212, 178393668, 177714739, 177039394, 176367598, 175699319, 175034526, 174373188,
       173715272, 173060749, 172409588, 171761760, 171117236, 170475985, 169837980, 169203192,
       168571593, 167943157, 167317855, 166695661, 166076549, 165460492, 164847464, 164237441,
       163630397, 163026306, 162425145, 161826890, 161231516, 160639000, 160049318, 159462448,
       158878366, 158297051, 157718480, 157142630, 156569482, 155999012, 155431200, 154866024,
       154303466, 153743502, 153186115, 152631283, 152078987, 151529208, 150981926, 150437122,
       149894778, 149354874, 148817393, 148282316, 147749626, 147219303, 146691332, 146165694,
       145642373, 145121351, 144602612, 144086138, 143571914, 143059924, 142550150, 142042578,
       141537192, 141033975, 140532913, 140033991, 139537192, 139042504, 138549910, 138059396,
       137570947, 137084550, 136600191, 136117854, 135637527, 135159196, 134682847, 134208467,
       133736042, 133265559, 132797006, 132330369, 131865636, 131402794, 130941831, 130482734,
       130025490, 129570089, 129116518, 128664764, 128214817, 127766665, 127320295, 126875697,
       126432859, 125991771, 125552421, 125114797, 124678890, 124244688, 123812181, 123381358,
       122952209, 122524723, 122098890, 121674700, 121252143, 120831208, 120411887, 119994168,
       119578043, 119163502, 118750535, 118339133, 117929287, 117520986, 117114223, 116708987,
       116305271, 115903064, 115502359, 115103145, 114705416, 114309161, 113914373, 113521043,
       113129162, 112738723, 112349717, 111962135, 111575971, 111191215, 110807859, 110425897,
       110045320, 109666120, 109288289, 108911821, 108536707, 108162940, 107790512, 107419417,
       107049646, 106681193, 106314050, 105948211, 105583667, 105220413, 104858441, 104497745,
       104138317, 103780151, 103423240, 103067577, 102713156, 102359971, 102008014, 101657279,
       101307760, 100959451, 100612345, 100266436, 99921718, 99578185, 99235830, 98894648,
       98554632, 98215777, 97878076, 97541525, 97206116, 96871845, 96538706, 96206692,
       95875798, 95546020, 95217350, 94889784, 94563316, 94237941, 93913654, 93590448,
       93268319, 92947262, 92627271, 92308342, 91990468, 91673645, 91357868, 91043133,
       90729432, 90416763, 90105120, 89794498, 89484893, 89176299, 88868712, 88562127,
       88256539, 87951944, 87648337, 87345714, 87044069, 86743400, 86443700, 86144965,
       85847192, 85550375, 85254511, 84959595, 84665622, 84372589, 84080491, 83789324,
       83499084, 83209766, 82921368, 82633883, 82347309, 82061642, 81776877, 81493010,
       81210038, 80927956, 80646761, 80366449, 80087015, 79808457, 79530771, 79253952,
       78977996, 78702901, 78428663, 78155277, 77882740, 77611049, 77340200, 77070190,
       76801014, 76532670, 76265154, 75998462, 75732592, 75467538, 75203299, 74939871,
       74677251, 74415434, 74154419, 73894201, 73634777, 73376144, 73118300, 72861240,
       72604961, 72349461, 72094736, 71840783, 71587599, 71335180, 71083525, 70832630,
       70582491, 70333106, 70084472, 69836586, 69589445, 69343045, 69097385, 68852461,
       68608271, 68364811, 68122078, 67880071, 67638786, 67398219, 67158370, 66919234,
       66680810, 66443093, 66206083, 65969775, 65734168, 65499259, 65265044, 65031522,
       64798690, 64566546, 64335086, 64104308, 63874210, 63644789, 63416043, 63187969,
       62960565, 62733828, 62507756, 62282346, 62057596, 61833504, 61610067, 61387283,
       61165150, 60943665, 60722825, 60502629, 60283075, 60064159, 59845880, 59628236,
       59411223, 59194841, 58979086, 58763957, 58549452, 58335567, 58122302, 57909653,
       57697620, 57486199, 57275388, 57065186, 56855590, 56646598, 56438209, 56230419,
       56023228, 55816633, 55610632, 55405222, 55200403, 54996172, 54792527, 54589466,
       54386987, 54185089, 53983769, 53783025, 53582855, 53383259, 53184233, 52985775,
       52787885, 52590560, 52393798, 52197598, 52001957, 51806874, 51612347, 51418374,
       51224953, 51032083, 50839763, 50647989, 50456760, 50266076, 50075933, 49886331,
       49697267, 49508739, 49320747, 49133289, 48946362, 48759965, 48574097, 48388756,
       48203940, 48019647, 47835877, 47652627, 47469895, 47287681, 47105983, 46924798,
       46744126, 46563965, 46384313, 46205169, 46026532, 45848399, 45670770, 45493642,
       45317014, 45140886, 44965254, 44790119, 44615478, 44441329, 44267672, 44094506,
       43921827, 43749636, 43577931, 43406710, 43235972, 43065715, 42895939, 42726641,
       42557821, 42389476, 42221607, 42054210, 41887286, 41720832, 41554847, 41389331,
       41224280, 41059696, 40895575, 40731917, 40568720, 40405983, 40243706, 40081885,
       39920521, 39759613, 39599157, 39439155, 39279604, 39120502, 38961850, 38803645,
       38645887, 38488573, 38331704, 38175278, 38019293, 37863748, 37708643, 37553976,
       37399745, 37245951, 37092590, 36939664, 36787169, 36635106, 36483473, 36332268,
       36181491, 36031141, 35881217, 35731716, 35582639, 35433985, 35285751, 35137937,
       34990543, 34843566, 34697006, 34550862, 34405133, 34259817, 34114913, 33970422,
       33826341, 33682669, 33539406, 33396550, 33254100, 33112056, 32970417, 32829181,
       32688347, 32547914, 32407883, 32268250, 32129016, 31990179, 31851739, 31713695,
       31576045, 31438788, 31301925, 31165453, 31029372, 30893681, 30758379, 30623464,
       30488937, 30354796, 30221040, 30087669, 29954681, 29822076, 29689852, 29558009,
       29426546, 29295461, 29164755, 29034426, 28904474, 28774897, 28645694, 28516865,
       28388410, 28260326, 28132613, 28005271, 27878298, 27751694, 27625458, 27499589,
       27374086, 27248949, 27124176, 26999767, 26875721, 26752037, 26628714, 26505752,
       26383149, 26260906, 26139021, 26017493, 25896321, 25775506, 25655046, 25534940,
       25415187, 25295788, 25176740, 25058044, 24939698, 24821702, 24704055, 24586756,
       24469805, 24353201, 24236943, 24121030, 24005462, 23890238, 23775357, 23660818,
       23546621, 23432766, 23319251, 23206075, 23093239, 22980741, 22868580, 22756757,
       22645269, 22534117, 22423301, 22312818, 22202669, 22092853, 21983369, 21874216,
       21765395, 21656903, 21548742, 21440909, 21333404, 21226228, 21119378, 21012854,
       20906657, 20800784, 20695236, 20590012, 20485111, 20380533, 20276276, 20172341,
       20068727, 19965433, 19862459, 19759803, 19657466, 19555447, 19453744, 19352359,
       19251289, 19150535, 19050095, 18949970, 18850159, 18750660, 18651474, 18552600,
       18454037, 18355786, 18257844, 18160212, 18062889, 17965875, 17869169, 17772770,
       17676678, 17580892, 17485413, 17390238, 17295369, 17200803, 17106541, 17012583,
       16918927, 16825573, 16732521, 16639769, 16547319, 16455168, 16363317, 16271765,
       16180511, 16089555, 15998897, 15908536, 15818471, 15728702, 15639229, 15550051,
       15461167, 15372577, 15284281, 15196278, 15108567, 15021148, 14934021, 14847186,
       14760641, 14674386, 14588420, 14502744, 14417357, 14332258, 14247447, 14162924,
       14078687, 13994737, 13911073, 13827695, 13744601, 13661793, 13579269, 13497028,
       13415071, 13333397, 13252005, 13170896, 13090068, 13009521, 12929256, 12849270,
       12769565, 12690139, 12610992, 12532124, 12453534, 12375222, 12297188, 12219430,
       12141949, 12064745, 11987816, 11911163, 11834785, 11758681, 11682852, 11607296,
       11532014, 11457005, 11382269, 11307805, 11233613, 11159692, 11086043, 11012664,
       10939556, 10866717, 10794149, 10721849, 10649819, 10578057, 10506563, 10435337,
       10364379, 10293687, 10223262, 10153104, 10083212, 10013585, 9944223, 9875127,
       9806295, 9737727, 9669423, 9601383, 9533606, 9466092, 9398840, 9331851,
       9265123, 9198657, 9132452, 9066508, 9000825, 8935401, 8870238, 8805334,
       8740689, 8676304, 8612176, 8548307, 8484697, 8421343, 8358247, 8295408,
       8232826, 8170500, 8108430, 8046616, 7985058, 7923754, 7862706, 7801912,
       7741372, 7681086, 7621054, 7561276, 7501750, 7442477, 7383457, 7324689,
       7266173, 7207909, 7149896, 7092134, 7034623, 6977362, 6920352, 6863591,
       6807081, 6750819, 6694807, 6639044, 6583530, 6528263, 6473245, 6418475,
       6363952, 6309677, 6255648, 6201867, 6148332, 6095043, 6042000, 5989203,
       5936651, 5884345, 5832284, 5780467, 5728895, 5677567, 5626484, 5575644,
       5525047, 5474694, 5424584, 5374717, 5325092, 5275710, 5226569, 5177671,
       5129014, 5080599, 5032425, 4984492, 4936800, 4889348, 4842137, 4795165,
       4748434, 4701942, 4655689, 4609676, 4563902, 4518366, 4473069, 4428010,
       4383190, 4338607, 4294263, 4250155, 4206285, 4162652, 4119256, 4076097,
       4033174, 3990488, 3948038, 3905823, 3863844, 3822101, 3780593, 3739321,
       3698283, 3657480, 3616911, 3576577, 3536478, 3496612, 3456980, 3417581,
       3378416, 3339485, 3300786, 3262321, 3224088, 3186088, 3148320, 3110784,
       3073481, 3036409, 2999569, 2962961, 2926584, 2890438, 2854523, 2818839,
       2783386, 2748164, 2713171, 2678410, 2643878, 2609576, 2575504, 2541661,
       2508048, 2474665, 2441510, 2408585, 2375888, 2343420, 2311181, 2279170,
       2247387, 2215833, 2184506, 2153408, 2122537, 2091893, 2061478, 2031289,
       2001328, 1971593, 1942086, 1912805, 1883751, 1854923, 1826322, 1797947,
       1769798, 1741875, 1714178, 1686707, 1659461, 1632441, 1605646, 1579077,
       1552733, 1526613, 1500719, 1475049, 1449604, 1424384, 1399388, 1374616,
       1350069, 1325745, 1301646, 1277771, 1254119, 1230691, 1207487, 1184506,
       1161749, 1139214, 1116903, 1094816, 1072951, 1051309, 1029889, 1008693,
       987719, 966967, 946438, 926132, 906047, 886185, 866545, 847126,
       827930, 808955, 790202, 771671, 753361, 735273, 717406, 699761,
       682336, 665133, 648151, 631390, 614850, 598531, 582432, 566555,
       550898, 535461, 520245, 505250, 490474, 475920, 461585, 447471,
       433576, 419902, 406448, 393214, 380199, 367405, 354830, 342475,
       330339, 318423, 306727, 295251, 283993, 272955, 262137, 251538,
       241158, 230997, 221056, 211333, 201830, 192546, 183480, 174634,
       166007, 157598, 149409, 141438, 133686, 126153, 118838, 111742,
       104865, 98206, 91766, 85545, 79542, 73758, 68192, 62845,
       57716, 52805, 48113, 43639, 39384, 35347, 31528, 27927,
       24545, 21381, 18436, 15708, 13199, 10908, 8835, 6981,
       5345, 3927, 2727, 1745, 981, 436, 109, 0
    >>

RECURSIVE Gcd(_, _)
Gcd(a, b) == IF b = 0 THEN a ELSE Gcd(b, a % b)

\* zn / zd <= t / 10^8, by long division of zn / zd to 8 decimals
RatLE(zn, zd, t) ==
    LET q == zn \div zd
        r == zn % zd
        d1 == (r * 10000) \div zd
        r1 == (r * 10000) % zd
        d2 == (r1 * 10000) \div zd
        r2 == (r1 * 10000) % zd
        F == d1 * 10000 + d2
        tq == t \div 100000000
        tf == t % 100000000
    IN  q < tq \/ (q = tq /\ (F < tf \/ (F = tf /\ r2 = 0)))

\* the largest k in lo..hi with zn / zd <= SfCrit[k] / 10^8, lo - 1 if none
\* (SfCrit decreases, so the k that qualify form an initial segment)
RECURSIVE CritSearch(_, _, _, _)
CritSearch(zn, zd, lo, hi) ==
    IF lo > hi THEN lo - 1
    ELSE LET mid == (lo + hi) \div 2
         IN  IF RatLE(zn, zd, SfCrit[mid])
             THEN CritSearch(zn, zd, mid + 1, hi)
             ELSE CritSearch(zn, zd, lo, mid - 1)

\* p = 2.0 * norm.sf(abs(z)) for z*z = zn / zd, in 1/FineScale units rounded
\* down: floor(FineScale * p).  0/0 is nan and x/0 is inf, whose p is 0
TwoSidedPFine(zn, zd) ==
    IF zd = 0 THEN (IF zn = 0 THEN NaN ELSE 0)
    ELSE LET g == Gcd(zn, zd)
         IN  CritSearch(zn \div g, zd \div g, 1, FineScale)

\* a value in 1/FineScale units, in 1/PScale units rounded down
ToPScale(x) == IF x = NaN THEN NaN ELSE (x * PScale) \div FineScale

\* p = 2.0 * norm.sf(abs(z)) in 1/PScale units rounded down
TwoSidedP(zn, zd) == ToPScale(TwoSidedPFine(zn, zd))

\* the raw p-value of the pair g1, g2 (lines 69-75): z is
\* (mean_r1 - mean_r2) / sqrt(var * (1/n1 + 1/n2)), so with doubled rank sums
\* S1, S2 and D = S1*n2 - S2*n1,  z*z = D*D*VarDen / (4*n1*n2*(n1+n2)*VarNum)
PairZ2(x, labels, g1, g2) ==
    LET n1 == GroupSize(labels, g1)
        n2 == GroupSize(labels, g2)
        D == RankSum2(x, labels, g1) * n2 - RankSum2(x, labels, g2) * n1
    IN  <<D * D * VarDen(x), 4 * n1 * n2 * (n1 + n2) * VarNum(x)>>

PairPFine(x, labels, g1, g2) ==
    TwoSidedPFine(PairZ2(x, labels, g1, g2)[1], PairZ2(x, labels, g1, g2)[2])

PairP(x, labels, g1, g2) ==
    TwoSidedP(PairZ2(x, labels, g1, g2)[1], PairZ2(x, labels, g1, g2)[2])

\* pairs: every i < j of group_keys with both groups non-empty, in loop order
PairIndexes(gs) ==
    LET n == Len(gs)
        all == [k \in 1..(n * n) |-> <<((k - 1) \div n) + 1, ((k - 1) % n) + 1>>]
    IN  SelectSeq(all, LAMBDA ij : /\ ij[1] < ij[2]
                                   /\ Len(gs[ij[1]].obs) > 0
                                   /\ Len(gs[ij[2]].obs) > 0)

Pairs(gs) ==
    [k \in 1..Len(PairIndexes(gs)) |->
        <<gs[PairIndexes(gs)[k][1]].g, gs[PairIndexes(gs)[k][2]].g>>]

\* raw_p = np.asarray(pvals), in 1/FineScale units
RawPFine(gs) ==
    [k \in 1..Len(Pairs(gs)) |->
        PairPFine(Flatten(gs), Labels(gs), Pairs(gs)[k][1], Pairs(gs)[k][2])]

\* raw_p in 1/PScale units
RawP(gs) ==
    [k \in 1..Len(Pairs(gs)) |->
        PairP(Flatten(gs), Labels(gs), Pairs(gs)[k][1], Pairs(gs)[k][2])]

\* adj_p (lines 82-87) in 1/PScale units rounded down: the adjustment is
\* applied to the raw p-values at their full resolution and only its result
\* is rounded
AdjustedP(gs, method, order) ==
    LET fine == IF method = "holm"
                THEN HolmAdjustOrd(RawPFine(gs), order, FineScale)
                ELSE Bonferroni(RawPFine(gs), FineScale)
    IN  [k \in 1..Len(fine) |-> ToPScale(fine[k])]

\* p_adjust.lower()
Lower(s) == CASE s = "Holm" -> "holm" [] OTHER -> s

Methods == {"holm", "Holm", "bonferroni", "fdr"}

\* out[key] = float(p) for (g1, g2), p in zip(pairs, adj_p)
OutDict(prs, adj) ==
    LET key(k) == SortedPair(prs[k][1], prs[k][2])
    IN  [kk \in {key(k) : k \in 1..Len(prs)} |->
            adj[CHOOSE k \in 1..Len(prs) :
                    /\ key(k) = kk
                    /\ \A l \in 1..Len(prs) : key(l) = kk => l <= k]]

GroupSeqs ==
    {gs \in SeqsUpTo([g : GroupIds, obs : SeqsUpTo(1..MaxVal, MaxObs)], MaxGroups) :
        \A i, j \in 1..Len(gs) : gs[i].g = gs[j].g => i = j}

InitDunn ==
    /\ pc = "ready"
    /\ groups \in GroupSeqs
    /\ p_adjust \in Methods
    /\ steps = {} /\ raw_p = <<>> /\ dunn_out = <<>> /\ err = "none"
    /\ pvals = <<>> /\ out = <<>>
    /\ group_means = <<>> /\ cld_pvals = <<>> /\ alpha = 0
    /\ cld_groups = <<>> /\ letters = <<>> /\ letter_list = <<>> /\ gi = 0

\* np.concatenate(values) raises ValueError when values is empty (line 44)
DunnConcatenateFails ==
    /\ pc = "ready"
    /\ Len(groups) = 0
    /\ pc' = "done"
    /\ err' = "ValueError"
    /\ steps' = {"flatten"}
    /\ UNCHANGED <<groups, p_adjust, raw_p, dunn_out, holmVars, cldVars>>

\* lines 44-87: ranks, rank sums, tie correction and raw p-values are
\* computed, then the method name is rejected
DunnBadMethod ==
    /\ pc = "ready"
    /\ Len(groups) > 0
    /\ Lower(p_adjust) \notin {"holm", "bonferroni"}
    /\ pc' = "done"
    /\ err' = "ValueError"
    /\ raw_p' = RawP(groups)
    /\ steps' = {"flatten", "rank", "rank_sums", "tie_correction", "pairwise"}
    /\ UNCHANGED <<groups, p_adjust, dunn_out, holmVars, cldVars>>

\* lines 44-93 with a supported method: float(z) of the key sort raises
\* ValueError on the first pair when an identifier is not a number
DunnPosthoc ==
    /\ pc = "ready"
    /\ Len(groups) > 0
    /\ Lower(p_adjust) \in {"holm", "bonferroni"}
    /\ pc' = "done"
    /\ raw_p' = RawP(groups)
    /\ steps' = {"flatten", "rank", "rank_sums", "tie_correction", "pairwise",
                 "adjust"}
    /\ \E order \in ArgSorts(RawPFine(groups)) :
          LET prs == Pairs(groups)
              adj_p == AdjustedP(groups, Lower(p_adjust), order)
          IN  IF \E k \in 1..Len(prs) : ~IsFloat(prs[k][1]) \/ ~IsFloat(prs[k][2])
              THEN err' = "ValueError" /\ dunn_out' = <<>>
              ELSE err' = "none" /\ dunn_out' = OutDict(prs, adj_p)
    /\ UNCHANGED <<groups, p_adjust, holmVars, cldVars>>

NextDunn == DunnConcatenateFails \/ DunnBadMethod \/ DunnPosthoc

SpecDunn == InitDunn /\ [][NextDunn]_vars

\* ---- cld_letters --------------------------------------------------------
Means == {0, 1, 2}

\* group_means[g]
MeanOf(gm, g) == gm[CHOOSE i \in 1..Len(gm) : gm[i].g = g].mean

\* sorted(groups, key=lambda g: group_means[g], reverse=True) is stable:
\* groups with equal means keep the order of the dict's keys.  Insert puts g
\* behind every group whose mean is at least g's.
InsertDescTiesFirst(gm, sorted, g) ==
    LET k == Cardinality({i \in 1..Len(sorted) :
                             MeanOf(gm, sorted[i]) > MeanOf(gm, g)})
    IN  SubSeq(sorted, 1, k) \o <<g>> \o SubSeq(sorted, k + 1, Len(sorted))

InsertDesc(gm, sorted, g) ==
    LET k == Cardinality({i \in 1..Len(sorted) :
                             MeanOf(gm, sorted[i]) >= MeanOf(gm, g)})
    IN  SubSeq(sorted, 1, k) \o <<g>> \o SubSeq(sorted, k + 1, Len(sorted))

RECURSIVE SortDesc(_, _)
SortDesc(gm, n) ==
    IF n = 0 THEN <<>> ELSE InsertDesc(gm, SortDesc(gm, n - 1), gm[n].g)

\* chr(ord("a") + n)
Letter(n) == <<"a", "b", "c", "d", "e", "f", "g", "h">>[n + 1]

\* L in letters[h]
HasLetter(lt, h, L) == \E i \in 1..Len(lt[h]) : lt[h][i] = L

\* pvals.get(key, 1.0) >= alpha with key the sorted pair; 1.0 is CScale
Nonsig(pv, al, g, h) ==
    LET key == SortedPair(g, h)
    IN  (IF key \in DOMAIN pv THEN pv[key] ELSE CScale) >= al

\* members = [h for h in groups if L in letters[h]]
Members(grp, lt, L) == SelectSeq(grp, LAMBDA h : HasLetter(lt, h, L))

\* members = ...; nonsig(g, members[0]) alone
JoinOutcomeFirstMember(grp, lt, pv, al, g, L) ==
    LET ms == Members(grp, lt, L)
    IN  IF ~IsFloat(g) \/ ~IsFloat(ms[1]) THEN "raise"
        ELSE IF Nonsig(pv, al, g, ms[1]) THEN "join" ELSE "skip"

\* all(nonsig(g, h) for h in members), stopping at the first False; float()
\* of the key sort raises ValueError when g or h is not a number
JoinOutcome(grp, lt, pv, al, g, L) ==
    LET ms == Members(grp, lt, L)
        stop == {k \in 1..Len(ms) :
                    ~IsFloat(g) \/ ~IsFloat(ms[k]) \/ ~Nonsig(pv, al, g, ms[k])}
    IN  IF stop = {} THEN "join"
        ELSE LET k == CHOOSE a \in stop : \A b \in stop : a <= b
             IN  IF ~IsFloat(g) \/ ~IsFloat(ms[k]) THEN "raise" ELSE "skip"

\* the letters g joins in one pass over letter_list (lines 114-119), up to
\* the first letter whose test raises
Joined(grp, lt, ll, pv, al, g) ==
    LET oc == [li \in 1..Len(ll) |-> JoinOutcome(grp, lt, pv, al, g, ll[li])]
        bad == {li \in 1..Len(ll) : oc[li] = "raise"}
        upto == IF bad = {} THEN Len(ll)
                ELSE (CHOOSE a \in bad : \A b \in bad : a <= b) - 1
    IN  [raised |-> bad # {},
         got |-> SelectSeq([li \in 1..upto |-> ll[li]],
                           LAMBDA L : \E li \in 1..upto :
                                         ll[li] = L /\ oc[li] = "join")]

\* one iteration of "for g in groups" (lines 112-131); the clean-up pass of
\* lines 128-131 assigns nothing and repeats tests that already passed
CldStep(st, pv, al, g) ==
    LET j == Joined(st.groups, st.letters, st.letter_list, pv, al, g)
    IN  IF j.raised
        THEN [st EXCEPT !.letters[g] = j.got, !.raised = TRUE]
        ELSE IF j.got = <<>>
        THEN [st EXCEPT !.letters[g] = <<Letter(Len(st.letter_list))>>,
                        !.letter_list = Append(@, Letter(Len(st.letter_list)))]
        ELSE [st EXCEPT !.letters[g] = j.got]

\* lines 101-106
CldStart(gm) ==
    [groups |-> SortDesc(gm, Len(gm)),
     letters |-> [g \in {gm[i].g : i \in 1..Len(gm)} |-> <<>>],
     letter_list |-> <<>>,
     raised |-> FALSE]

\* the whole loop from group k on
RECURSIVE CldRun(_, _, _, _)
CldRun(st, pv, al, k) ==
    IF k > Len(st.groups) \/ st.raised THEN st
    ELSE CldRun(CldStep(st, pv, al, st.groups[k]), pv, al, k + 1)

MeanSeqs ==
    {gm \in SeqsUpTo([g : GroupIds, mean : Means], MaxGroups) :
        \A i, j \in 1..Len(gm) : gm[i].g = gm[j].g => i = j}

\* the sorted pair keys over the numeric identifiers of gm
PairKeys(gm) ==
    {<<gm[i].g, gm[j].g>> : i, j \in 1..Len(gm)} \cap
    {kk \in GroupIds \X GroupIds :
        IsFloat(kk[1]) /\ IsFloat(kk[2]) /\ Float(kk[1]) < Float(kk[2])}

\* alpha: the smallest positive p-value and 1.0
Alphas == {1, CScale}

InitCld ==
    /\ pc = "ready"
    /\ err = "none"
    /\ group_means \in MeanSeqs
    /\ cld_pvals \in UNION {[D -> 0..CScale] : D \in SUBSET PairKeys(group_means)}
    /\ alpha \in Alphas
    /\ cld_groups = <<>> /\ letters = <<>> /\ letter_list = <<>> /\ gi = 0
    /\ pvals = <<>> /\ out = <<>>
    /\ groups = <<>> /\ p_adjust = "" /\ steps = {} /\ raw_p = <<>>
    /\ dunn_out = <<>>

CldBegin ==
    /\ pc = "ready"
    /\ pc' = "loop"
    /\ cld_groups' = CldStart(group_means).groups
    /\ letters' = CldStart(group_means).letters
    /\ letter_list' = CldStart(group_means).letter_list
    /\ gi' = 1
    /\ UNCHANGED <<err, group_means, cld_pvals, alpha, holmVars, dunnVars>>

CldIter ==
    /\ pc = "loop"
    /\ gi <= Len(cld_groups)
    /\ LET st == CldStep([groups |-> cld_groups, letters |-> letters,
                          letter_list |-> letter_list, raised |-> FALSE],
                         cld_pvals, alpha, cld_groups[gi])
       IN  /\ letters' = st.letters
           /\ letter_list' = st.letter_list
           /\ IF st.raised
              THEN pc' = "done" /\ err' = "ValueError" /\ gi' = gi
              ELSE pc' = "loop" /\ err' = err /\ gi' = gi + 1
    /\ UNCHANGED <<group_means, cld_pvals, alpha, cld_groups, holmVars, dunnVars>>

CldReturn ==
    /\ pc = "loop"
    /\ gi > Len(cld_groups)
    /\ pc' = "done"
    /\ UNCHANGED <<err, cldVars, holmVars, dunnVars>>

NextCld == CldBegin \/ CldIter \/ CldReturn

SpecCld == InitCld /\ [][NextCld]_vars

\* ======================= properties of holm_adjust =======================
\* the number of entries of pv strictly below v
Below(pv, v) == Cardinality({l \in 1..Len(pv) : pv[l] < v})

\* the largest value of a non-empty finite set of integers
SetMax(S) == CHOOSE a \in S : \A b \in S : b <= a

\* C3: the output of holm_adjust has the input's length, every entry lies in
\* [0,1], out[i] is the adjustment of pvals[i] (the clipped largest candidate
\* (m - rank) * p over the entries not above pvals[i]), and the adjustment is
\* monotone: pvals[i] <= pvals[j] implies out[i] <= out[j].
C3_HolmOrderRangeMonotone ==
    pc = "done" =>
        /\ Len(out) = Len(pvals)
        /\ DOMAIN out = DOMAIN pvals
        /\ \A i \in DOMAIN out : out[i] \in 0..PScale
        /\ \A i \in DOMAIN out :
              out[i] = Min2(PScale,
                            SetMax({(Len(pvals) - Below(pvals, pvals[j])) * pvals[j] :
                                       j \in {l \in DOMAIN pvals : pvals[l] <= pvals[i]}}))
        /\ \A i, j \in DOMAIN out : pvals[i] <= pvals[j] => out[i] <= out[j]

\* an unsorted input with a tie: the tied entries get one adjusted value,
\* above their raw value and below the adjusted value of the larger entry
C3_Witness ==
    /\ pc = "done"
    /\ Len(pvals) = 3
    /\ pvals[1] > pvals[2] /\ pvals[2] = pvals[3]
    /\ out[1] > out[2] /\ out[2] = out[3]
    /\ out[2] > pvals[2] /\ out[2] < PScale

\* C10: the Holm adjustment lies between the raw value and the Bonferroni
\* adjustment, pvals[i] <= out[i] <= min(1, m * pvals[i]), and equals the
\* Bonferroni adjustment wherever pvals[i] is the smallest raw value.
C10_HolmBetweenRawAndBonferroni ==
    pc = "done" =>
        \A i \in DOMAIN pvals :
            /\ pvals[i] <= out[i]
            /\ out[i] <= Bonferroni(pvals, PScale)[i]
            /\ (\A j \in DOMAIN pvals : pvals[i] <= pvals[j])
                  => out[i] = Bonferroni(pvals, PScale)[i]

\* an entry strictly between its raw value and its Bonferroni adjustment
C10_Witness ==
    /\ pc = "done"
    /\ Len(pvals) >= 2
    /\ \E i \in DOMAIN pvals :
          pvals[i] < out[i] /\ out[i] < Bonferroni(pvals, PScale)[i]
    /\ \E i \in DOMAIN pvals :
          /\ \A j \in DOMAIN pvals : pvals[i] <= pvals[j]
          /\ pvals[i] > 0 /\ out[i] < PScale

\* ======================= properties of dunn_posthoc ======================
ValidMethod == Lower(p_adjust) \in {"holm", "bonferroni"}

\* the positions of the groups with at least one observation
NonEmpty(gs) == {i \in 1..Len(gs) : Len(gs[i].obs) > 0}

\* C4: with a supported method the call on a mapping of at least one group
\* returns a map of exactly k*(k-1)/2 entries for the k non-empty groups, one
\* per unordered pair of them, each key sorted by numeric value; empty groups
\* appear in no key.  (The mapping with no group at all is C6's case.)
C4_PairCountAndSortedKeys ==
    (pc = "done" /\ ValidMethod /\ Len(groups) > 0) =>
        LET ne == {groups[i].g : i \in NonEmpty(groups)}
            k == Cardinality(ne)
        IN  /\ err = "none"
            /\ 2 * Cardinality(DOMAIN dunn_out) = k * (k - 1)
            /\ \A g, h \in ne :
                  g # h => (<<g, h>> \in DOMAIN dunn_out \/ <<h, g>> \in DOMAIN dunn_out)
            /\ \A kk \in DOMAIN dunn_out :
                  /\ kk[1] \in ne /\ kk[2] \in ne
                  /\ IsFloat(kk[1]) /\ IsFloat(kk[2])
                  /\ Float(kk[1]) < Float(kk[2])

\* C5: with an unsupported method the call fails with the invalid-argument
\* error before any ranking, rank-sum or pairwise p-value computation, and
\* returns no map.
C5_BadMethodRaisedFirst ==
    (pc = "done" /\ ~ValidMethod) =>
        /\ err = "ValueError"
        /\ steps \cap {"rank", "rank_sums", "tie_correction", "pairwise"} = {}
        /\ raw_p = <<>>
        /\ dunn_out = <<>>

\* C6: with a supported method and fewer than two non-empty groups (no
\* groups, only empty groups, one non-empty group) the call raises nothing
\* and returns the empty map, the adjustment of the empty p-value array
\* being empty.
C6_FewGroupsEmptyMap ==
    (pc = "done" /\ ValidMethod /\ Cardinality(NonEmpty(groups)) < 2) =>
        /\ err = "none"
        /\ raw_p = <<>>
        /\ dunn_out = <<>>

\* C7: with a supported method, two groups holding the same non-empty
\* sequence of values have an entry in the returned map, and it is 1.0.
C7_IdenticalGroupsPOne ==
    (pc = "done" /\ ValidMethod) =>
        \A i, j \in NonEmpty(groups) :
            (i < j /\ groups[i].obs = groups[j].obs) =>
                /\ err = "none"
                /\ \E kk \in DOMAIN dunn_out :
                      /\ kk \in {<<groups[i].g, groups[j].g>>, <<groups[j].g, groups[i].g>>}
                      /\ dunn_out[kk] = PScale

\* C9: for N >= 2 pooled observations the variance term under a pairwise z
\* is positive, every raw p-value is a number in [0,1] and so is every
\* returned p-value.
C9_VariancePositivePInRange ==
    (pc = "done" /\ Len(Flatten(groups)) >= 2) =>
        /\ Pairs(groups) # <<>> => VarNum(Flatten(groups)) > 0
        /\ \A k \in DOMAIN raw_p : raw_p[k] \in 0..PScale
        /\ \A kk \in DOMAIN dunn_out : dunn_out[kk] \in 0..PScale

\* ======================= properties of cld_letters =======================
\* the result strings of g and h have a letter in common
ShareLetter(g, h) ==
    \E i \in 1..Len(letters[g]) : \E j \in 1..Len(letters[h]) :
        letters[g][i] = letters[h][j]

\* the p-value stored for g, h under the key sorted by numeric value, 1.0
\* when the pair is absent
StoredP(g, h) ==
    LET key == IF Float(g) < Float(h) THEN <<g, h>> ELSE <<h, g>>
    IN  IF key \in DOMAIN cld_pvals THEN cld_pvals[key] ELSE CScale

\* C1: at every point of the greedy loop and at return, two distinct groups
\* whose strings share a letter have a stored p-value (1.0 when absent) that
\* is at least alpha.
C1_SharedLetterNonSignificant ==
    \A g, h \in DOMAIN letters :
        (g # h /\ ShareLetter(g, h)) =>
            /\ IsFloat(g) /\ IsFloat(h)
            /\ StoredP(g, h) >= alpha

\* inside the loop: a stored pair shares a letter, an absent pair shares a
\* letter, and a significant pair does not
C1_Witness ==
    /\ pc = "loop" /\ gi = 4
    /\ \E g, h \in DOMAIN letters :
          /\ g # h /\ ShareLetter(g, h)
          /\ (<<g, h>> \in DOMAIN cld_pvals \/ <<h, g>> \in DOMAIN cld_pvals)
    /\ \E g, h \in DOMAIN letters :
          /\ g # h /\ ShareLetter(g, h)
          /\ <<g, h>> \notin DOMAIN cld_pvals /\ <<h, g>> \notin DOMAIN cld_pvals
    /\ \E g, h \in DOMAIN letters :
          /\ g # h /\ ~ShareLetter(g, h)
          /\ IsFloat(g) /\ IsFloat(h) /\ StoredP(g, h) < alpha

\* C2: at return two groups share a letter if and only if their p-value is
\* at least alpha; in particular means 1 > 2 > 3 with p(1,2) and p(2,3) not
\* significant and p(1,3) significant give "a", "ab", "b".
C2_ShareIffNonSignificant ==
    (pc = "done" /\ err = "none") =>
        /\ \A g, h \in DOMAIN letters :
              g # h => (ShareLetter(g, h) <=> StoredP(g, h) >= alpha)
        /\ ( /\ group_means = << [g |-> "1", mean |-> 2], [g |-> "2", mean |-> 1],
                                 [g |-> "3", mean |-> 0] >>
             /\ DOMAIN cld_pvals = {<<"1", "2">>, <<"2", "3">>, <<"1", "3">>}
             /\ cld_pvals[<<"1", "2">>] = CScale
             /\ cld_pvals[<<"2", "3">>] = CScale
             /\ cld_pvals[<<"1", "3">>] = 0
             /\ alpha = 1 )
           => ( /\ letters["1"] = <<"a">>
                /\ letters["2"] = <<"a", "b">>
                /\ letters["3"] = <<"b">> )

\* the order of the identifiers
IdRank(z) == CASE z = "1" -> 1 [] z = "2" -> 2 [] z = "3" -> 3 [] z = "A" -> 4

\* the position of g among the keys of group_means
InsPos(g) == CHOOSE i \in 1..Len(group_means) : group_means[i].g = g

\* group_means with its keys inserted in identifier order
IdOrdered(gm) ==
    [k \in 1..Len(gm) |->
        gm[CHOOSE i \in 1..Len(gm) :
              Cardinality({j \in 1..Len(gm) : IdRank(gm[j].g) < IdRank(gm[i].g)}) = k - 1]]

\* the letters (or the exception) of the call on the keys in identifier order
IdOrderedResult ==
    LET st == CldRun(CldStart(IdOrdered(group_means)), cld_pvals, alpha, 1)
    IN  [raised |-> st.raised,
         letters |-> IF st.raised THEN [g \in {} |-> <<>>] ELSE st.letters]

\* the letters (or the exception) of the call
CldResult ==
    [raised |-> err # "none",
     letters |-> IF err # "none" THEN [g \in {} |-> <<>>] ELSE letters]

\* C8 as stated: the groups are processed by descending mean, equal means in
\* identifier order, so the result is that of the same mapping with its keys
\* inserted in identifier order.
C8_TiesInIdentifierOrder ==
    /\ pc \in {"loop", "done"} =>
          \A i, j \in 1..Len(cld_groups) :
              i < j =>
                  \/ MeanOf(group_means, cld_groups[i]) > MeanOf(group_means, cld_groups[j])
                  \/ /\ MeanOf(group_means, cld_groups[i]) = MeanOf(group_means, cld_groups[j])
                     /\ IdRank(cld_groups[i]) < IdRank(cld_groups[j])
    /\ pc = "done" => CldResult = IdOrderedResult

\* C8 amended: the groups are processed by descending mean, equal means in
\* the insertion order of group_means; when no two means are equal the result
\* is that of the same mapping with its keys inserted in identifier order.
C8_TiesInInsertionOrder ==
    /\ pc \in {"loop", "done"} =>
          /\ Len(cld_groups) = Len(group_means)
          /\ {cld_groups[i] : i \in 1..Len(cld_groups)}
                = {group_means[i].g : i \in 1..Len(group_means)}
          /\ \A i, j \in 1..Len(cld_groups) :
                i < j =>
                    \/ MeanOf(group_means, cld_groups[i]) > MeanOf(group_means, cld_groups[j])
                    \/ /\ MeanOf(group_means, cld_groups[i]) = MeanOf(group_means, cld_groups[j])
                       /\ InsPos(cld_groups[i]) < InsPos(cld_groups[j])
    /\ ( /\ pc = "done"
         /\ \A i, j \in 1..Len(group_means) :
               group_means[i].mean = group_means[j].mean => i = j )
       => CldResult = IdOrderedResult

\* three groups, two of equal mean inserted against identifier order, whose
\* letters differ from those of the identifier-ordered mapping
C8_Witness ==
    /\ pc = "done" /\ err = "none"
    /\ Len(group_means) = 3
    /\ \E i, j \in 1..Len(group_means) :
          /\ i < j
          /\ group_means[i].mean = group_means[j].mean
          /\ IdRank(group_means[i].g) > IdRank(group_means[j].g)
    /\ CldResult # IdOrderedResult

====
